---- MODULE Spec2Model ----
\* Model of wenet_speaker/bin/train.py: the distributed training entry point.
\* One process per rank runs train(); the processes share a file system
\* (exp_dir) and meet at the collective barriers of torch.distributed.
EXTENDS Integers, Sequences, FiniteSets, TLC

\* ------------------------------------------------------------------ bounds
MaxWorld == 2
MaxEpochs == 2
MaxInterval == 2
MaxAvg == 1

\* aug_prob as a fraction <<numerator, denominator>>; dyadic values, so that
\* the float expression 1.0 - aug_prob and the division by it are exact.
AugProbs == {<<0, 1>>, <<1, 2>>}

Procs == 0..(MaxWorld - 1)

VARIABLES
  world_size,    \* os.environ['WORLD_SIZE']
  configs,       \* the parsed configuration, the same for every process
  preExisting,   \* did <exp_dir>/models exist when the run started
  pc,            \* position of each process in train()
  num_epochs,    \* train_configs['num_epochs'] of each process
  epoch,         \* loop variable of each process
  barriers,      \* source lines of the dist.barrier() calls each process made
  model_dir,     \* <exp_dir>/models exists
  train_log,     \* ranks whose logger opened <exp_dir>/train.log
  config_yaml,   \* <exp_dir>/config.yaml has been written
  headerLogged,  \* the training table header has been logged
  ckpts,         \* epochs e whose model_<e>.pt exists
  symlinks,      \* targets of the final_model.pt links created, in order
  stdout,        \* lines printed by each process
  exitcode,      \* exit status of each process, -1 while it runs
  events,        \* per process: set_epoch / runepoch / save_checkpoint calls
  writers        \* which ranks performed each kind of output action

vars == <<world_size, configs, preExisting, pc, num_epochs, epoch, barriers,
          model_dir, train_log, config_yaml, headerLogged, ckpts, symlinks,
          stdout, exitcode, events, writers>>

env == <<world_size, configs, preExisting>>
files == <<model_dir, train_log, config_yaml, headerLogged, ckpts, symlinks, writers>>
term == <<stdout, exitcode>>

Ranks == 0..(world_size - 1)

\* mutant: the scaling of line 123 is forgotten
ConfiguredEpochs(E, a) == E

\* int(num_epochs / (1.0 - aug_prob)) for aug_prob = a[1] / a[2]
EffectiveEpochs(E, a) == (E * a[2]) \div (a[2] - a[1])

Goto(p, l) == pc' = [pc EXCEPT ![p] = l]

Init ==
  /\ world_size \in 1..MaxWorld
  /\ configs \in [num_epochs : 1..MaxEpochs,
                  aug_prob : AugProbs,
                  save_epoch_interval : 1..MaxInterval,
                  num_avg : 0..MaxAvg]
  /\ model_dir \in BOOLEAN
  /\ preExisting = model_dir
  /\ pc = [p \in Ranks |-> "mkdir"]
  /\ num_epochs = [p \in Ranks |-> configs.num_epochs]
  /\ epoch = [p \in Ranks |-> 0]
  /\ barriers = [p \in Ranks |-> <<>>]
  /\ train_log = {}
  /\ config_yaml = FALSE
  /\ headerLogged = FALSE
  /\ ckpts = {}
  /\ symlinks = <<>>
  /\ stdout = [p \in Ranks |-> <<>>]
  /\ exitcode = [p \in Ranks |-> -1]
  /\ events = [p \in Ranks |-> <<>>]
  /\ writers = [mkdir |-> {}, config |-> {}, ckpt |-> {}, symlink |-> {}]

\* mutant: os.makedirs(model_dir, exist_ok=True), an existing directory is accepted
mkdir_exist_ok(p) ==
  /\ pc[p] = "mkdir"
  /\ IF p = 0
       THEN /\ model_dir' = TRUE
            /\ writers' = [writers EXCEPT !.mkdir = @ \cup {p}]
       ELSE UNCHANGED <<model_dir, writers>>
  /\ Goto(p, "barrier46")
  /\ UNCHANGED <<env, num_epochs, epoch, barriers, train_log, config_yaml,
                 headerLogged, ckpts, symlinks, events, term>>

\* lines 39-45: rank 0 creates the model directory or exits with status 1
mkdir(p) ==
  /\ pc[p] = "mkdir"
  /\ IF p = 0
       THEN IF model_dir
              THEN /\ stdout' = [stdout EXCEPT ![p] = Append(@, "model_dir already exists !!!")]
                   /\ exitcode' = [exitcode EXCEPT ![p] = 1]
                   /\ Goto(p, "exited")
                   /\ UNCHANGED <<model_dir, writers>>
              ELSE /\ model_dir' = TRUE
                   /\ writers' = [writers EXCEPT !.mkdir = @ \cup {p}]
                   /\ Goto(p, "barrier46")
                   /\ UNCHANGED <<stdout, exitcode>>
       ELSE /\ Goto(p, "barrier46")
            /\ UNCHANGED <<model_dir, writers, stdout, exitcode>>
  /\ UNCHANGED <<env, num_epochs, epoch, barriers, train_log, config_yaml,
                 headerLogged, ckpts, symlinks, events>>

BarrierLine(l) == CASE l = "barrier46" -> 46
                    [] l = "barrier145" -> 145
                    [] l = "barrier151" -> 151

WaitOf(l) == CASE l = "barrier46" -> "wait46"
               [] l = "barrier145" -> "wait145"
               [] l = "barrier151" -> "wait151"

AfterWait(l) == CASE l = "wait46" -> "setup"
                  [] l = "wait145" -> "header"
                  [] l = "wait151" -> "for"

\* dist.barrier(): the process joins its next collective barrier ...
barrier_enter(p) ==
  /\ pc[p] \in {"barrier46", "barrier145", "barrier151"}
  /\ barriers' = [barriers EXCEPT ![p] = Append(@, BarrierLine(pc[p]))]
  /\ Goto(p, WaitOf(pc[p]))
  /\ UNCHANGED <<env, num_epochs, epoch, files, term, events>>

\* mutant: a barrier that does not wait for the other processes
BarrierNoWait(p) == TRUE

\* ... and returns once every process of the group has joined it too
BarrierReady(p) == \A q \in Ranks : Len(barriers[q]) >= Len(barriers[p])

barrier_exit(p) ==
  /\ pc[p] \in {"wait46", "wait145", "wait151"}
  /\ BarrierReady(p)
  /\ Goto(p, AfterWait(pc[p]))
  /\ UNCHANGED <<env, num_epochs, epoch, barriers, files, term, events>>

\* lines 48-136: logger, data, model, optimizer, schedulers
setup(p) ==
  /\ pc[p] = "setup"
  /\ train_log' = train_log \cup {p}
  /\ num_epochs' = [num_epochs EXCEPT ![p] = EffectiveEpochs(configs.num_epochs, configs.aug_prob)]
  /\ Goto(p, "saveconfig")
  /\ UNCHANGED <<env, epoch, barriers, model_dir, config_yaml, headerLogged,
                 ckpts, symlinks, writers, term, events>>

\* mutant: the barrier of line 145 sits inside the rank-0 branch
saveconfig_barrier_in_branch(p) ==
  /\ pc[p] = "saveconfig"
  /\ IF p = 0
       THEN /\ config_yaml' = TRUE
            /\ writers' = [writers EXCEPT !.config = @ \cup {p}]
            /\ Goto(p, "barrier145")
       ELSE /\ UNCHANGED <<config_yaml, writers>>
            /\ Goto(p, "header")
  /\ UNCHANGED <<env, num_epochs, epoch, barriers, model_dir, train_log,
                 headerLogged, ckpts, symlinks, term, events>>

\* lines 138-142: rank 0 writes <exp_dir>/config.yaml
saveconfig(p) ==
  /\ pc[p] = "saveconfig"
  /\ IF p = 0
       THEN /\ config_yaml' = TRUE
            /\ writers' = [writers EXCEPT !.config = @ \cup {p}]
       ELSE UNCHANGED <<config_yaml, writers>>
  /\ Goto(p, "barrier145")
  /\ UNCHANGED <<env, num_epochs, epoch, barriers, model_dir, train_log,
                 headerLogged, ckpts, symlinks, term, events>>

\* mutant: the barrier of line 151 is missing
header_no_barrier(p) ==
  /\ pc[p] = "header"
  /\ IF p = 0 THEN headerLogged' = TRUE ELSE UNCHANGED headerLogged
  /\ Goto(p, "for")
  /\ UNCHANGED <<env, num_epochs, epoch, barriers, model_dir, train_log,
                 config_yaml, ckpts, symlinks, writers, term, events>>

\* lines 146-150: rank 0 logs the table header
header(p) ==
  /\ pc[p] = "header"
  /\ IF p = 0 THEN headerLogged' = TRUE ELSE UNCHANGED headerLogged
  /\ Goto(p, "barrier151")
  /\ UNCHANGED <<env, num_epochs, epoch, barriers, model_dir, train_log,
                 config_yaml, ckpts, symlinks, writers, term, events>>

\* line 153: for epoch in range(1, num_epochs + 1)
for_epoch(p) ==
  /\ pc[p] = "for"
  /\ IF epoch[p] < num_epochs[p]
       THEN /\ epoch' = [epoch EXCEPT ![p] = @ + 1]
            /\ Goto(p, "set_epoch")
       ELSE /\ Goto(p, "symlink")
            /\ UNCHANGED epoch
  /\ UNCHANGED <<env, num_epochs, barriers, files, term, events>>

\* line 154: train_sampler.set_epoch(epoch)
set_epoch(p) ==
  /\ pc[p] = "set_epoch"
  /\ events' = [events EXCEPT ![p] = Append(@, <<"set_epoch", epoch[p]>>)]
  /\ Goto(p, "runepoch")
  /\ UNCHANGED <<env, num_epochs, epoch, barriers, files, term>>

\* mutant: an epoch starts only when every process has reached it
runepoch_lockstep(p) ==
  /\ pc[p] = "runepoch"
  /\ \A q \in Ranks : epoch[q] >= epoch[p]
  /\ events' = [events EXCEPT ![p] = Append(@, <<"runepoch", epoch[p]>>)]
  /\ Goto(p, "save")
  /\ UNCHANGED <<env, num_epochs, epoch, barriers, files, term>>

\* line 156: runepoch(...), a step local to the process
runepoch(p) ==
  /\ pc[p] = "runepoch"
  /\ events' = [events EXCEPT ![p] = Append(@, <<"runepoch", epoch[p]>>)]
  /\ Goto(p, "save")
  /\ UNCHANGED <<env, num_epochs, epoch, barriers, files, term>>

\* mutant: off by one in the tail of epochs kept for averaging
SaveDueStrict(p) ==
  \/ epoch[p] % configs.save_epoch_interval = 0
  \/ epoch[p] > num_epochs[p] - configs.num_avg

\* line 159: the condition under which the epoch's checkpoint is saved
SaveDue(p) ==
  \/ epoch[p] % configs.save_epoch_interval = 0
  \/ epoch[p] >= num_epochs[p] - configs.num_avg

\* mutant: the rank check of line 158 is missing
save_ungated(p) ==
  /\ pc[p] = "save"
  /\ IF SaveDue(p)
       THEN /\ ckpts' = ckpts \cup {epoch[p]}
            /\ writers' = [writers EXCEPT !.ckpt = @ \cup {p}]
            /\ events' = [events EXCEPT ![p] = Append(@, <<"save_checkpoint", epoch[p]>>)]
       ELSE UNCHANGED <<ckpts, writers, events>>
  /\ Goto(p, "for")
  /\ UNCHANGED <<env, num_epochs, epoch, barriers, model_dir, train_log,
                 config_yaml, headerLogged, symlinks, term>>

\* lines 158-160: rank 0 saves model_<epoch>.pt when it is due
save(p) ==
  /\ pc[p] = "save"
  /\ IF p = 0 /\ SaveDue(p)
       THEN /\ ckpts' = ckpts \cup {epoch[p]}
            /\ writers' = [writers EXCEPT !.ckpt = @ \cup {p}]
            /\ events' = [events EXCEPT ![p] = Append(@, <<"save_checkpoint", epoch[p]>>)]
       ELSE UNCHANGED <<ckpts, writers, events>>
  /\ Goto(p, "for")
  /\ UNCHANGED <<env, num_epochs, epoch, barriers, model_dir, train_log,
                 config_yaml, headerLogged, symlinks, term>>

\* mutant: the link names the configured epoch count, not the effective one
symlink_configured(p) ==
  /\ pc[p] = "symlink"
  /\ IF p = 0
       THEN /\ symlinks' = Append(symlinks, configs.num_epochs)
            /\ writers' = [writers EXCEPT !.symlink = @ \cup {p}]
       ELSE UNCHANGED <<symlinks, writers>>
  /\ exitcode' = [exitcode EXCEPT ![p] = 0]
  /\ Goto(p, "done")
  /\ UNCHANGED <<env, num_epochs, epoch, barriers, model_dir, train_log,
                 config_yaml, headerLogged, ckpts, stdout, events>>

\* lines 162-164: rank 0 links final_model.pt to model_<num_epochs>.pt
symlink(p) ==
  /\ pc[p] = "symlink"
  /\ IF p = 0
       THEN /\ symlinks' = Append(symlinks, num_epochs[p])
            /\ writers' = [writers EXCEPT !.symlink = @ \cup {p}]
       ELSE UNCHANGED <<symlinks, writers>>
  /\ exitcode' = [exitcode EXCEPT ![p] = 0]
  /\ Goto(p, "done")
  /\ UNCHANGED <<env, num_epochs, epoch, barriers, model_dir, train_log,
                 config_yaml, headerLogged, ckpts, stdout, events>>

Proc(p) ==
  \/ mkdir(p)
  \/ barrier_enter(p)
  \/ barrier_exit(p)
  \/ setup(p)
  \/ saveconfig(p)
  \/ header(p)
  \/ for_epoch(p)
  \/ set_epoch(p)
  \/ runepoch(p)
  \/ save(p)
  \/ symlink(p)

Next ==
  \/ \E p \in Ranks : mkdir(p)
  \/ \E p \in Ranks : barrier_enter(p)
  \/ \E p \in Ranks : barrier_exit(p)
  \/ \E p \in Ranks : setup(p)
  \/ \E p \in Ranks : saveconfig(p)
  \/ \E p \in Ranks : header(p)
  \/ \E p \in Ranks : for_epoch(p)
  \/ \E p \in Ranks : set_epoch(p)
  \/ \E p \in Ranks : runepoch(p)
  \/ \E p \in Ranks : save(p)
  \/ \E p \in Ranks : symlink(p)

Spec == Init /\ [][Next]_vars

\* every process is scheduled by the operating system: a process that can
\* take its next step eventually takes it
FairSpec == Spec /\ \A p \in Procs : WF_vars(p \in Ranks /\ Proc(p))

\* ------------------------------------------------------------------ claims

\* N: the effective number of epochs, int(num_epochs / (1 - aug_prob))
N == (configs.num_epochs * configs.aug_prob[2]) \div (configs.aug_prob[2] - configs.aug_prob[1])

\* the checkpoint of epoch e is due
Due(e) == e % configs.save_epoch_interval = 0 \/ e >= N - configs.num_avg

PastBarrier46(p) == pc[p] \notin {"mkdir", "barrier46", "wait46", "exited"}

InEpochs(p) == pc[p] \in {"for", "set_epoch", "runepoch", "save", "symlink", "done"}

AllDone == \A p \in Ranks : pc[p] = "done"

\* C1: when the model directory exists at startup, rank 0 never gets past the
\* mkdir step other than by exiting; it has then printed the "already exists
\* !!!" message, its exit status is 1, it has joined no barrier, and nothing
\* has been written: no train.log, no config.yaml, no checkpoint, no symlink.
C1_ExistingDirExits ==
  preExisting =>
    /\ pc[0] \in {"mkdir", "exited"}
    /\ pc[0] = "exited" =>
         /\ stdout[0] = <<"model_dir already exists !!!">>
         /\ exitcode[0] = 1
         /\ barriers[0] = <<>>
         /\ train_log = {}
         /\ ~config_yaml
         /\ ckpts = {}
         /\ symlinks = <<>>
         /\ \A k \in DOMAIN writers : writers[k] = {}

C1_Witness ==
  /\ preExisting
  /\ pc[0] = "exited"
  /\ world_size > 1
  /\ pc[1] = "wait46"

\* C2: in a run with world_size > 1 whose model directory already exists,
\* every process eventually exits.
C2_AllExitWhenDirExists ==
  (preExisting /\ world_size > 1) ~> (\A p \in Ranks : pc[p] \in {"exited", "done"})

\* C3: whenever some process is past the barrier of line 46, the model
\* directory exists and it is rank 0 that created it in this run.
C3_DirBeforeBarrier ==
  \A p \in Ranks :
    PastBarrier46(p) => (model_dir /\ writers.mkdir = {0} /\ ~preExisting)

C3_Witness ==
  /\ world_size > 1
  /\ pc[1] = "setup"
  /\ pc[0] = "wait46"

\* C4: whenever some process is in its epoch loop (or has run set_epoch),
\* rank 0 has written config.yaml and has logged the table header.
C4_ConfigAndHeaderBeforeEpochs ==
  \A p \in Ranks :
    (InEpochs(p) \/ events[p] # <<>>) => (config_yaml /\ headerLogged)

C4_Witness ==
  /\ world_size > 1
  /\ pc[1] = "runepoch"
  /\ epoch[1] = 1
  /\ pc[0] = "wait151"

\* C5: the directory creation, the config.yaml write, the checkpoint saves
\* and the symlink are performed by rank 0 only.
C5_Rank0Gated == \A k \in DOMAIN writers : writers[k] \subseteq {0}

C5_Witness ==
  /\ world_size > 1
  /\ AllDone
  /\ \A k \in DOMAIN writers : writers[k] = {0}

\* C6: when rank 0 finishes, model_<e>.pt exists exactly for the epochs e in
\* 1..N with e % save_epoch_interval = 0 or e >= N - num_avg.
C6_PeriodicCheckpoints ==
  pc[0] = "done" => ckpts = {e \in 1..N : Due(e)}

C6_Witness ==
  /\ pc[0] = "done"
  /\ \E e \in 1..N : e \notin ckpts
  /\ \E e \in 1..(N - 1) : e \in ckpts /\ e % configs.save_epoch_interval # 0
  /\ \E e \in 1..(N - 1) : e \in ckpts /\ e < N - configs.num_avg

\* C7: final_model.pt is created at most once, by rank 0, after rank 0 has
\* run its last epoch N; it points to model_<N>.pt, which exists then; and
\* rank 0 finishes with exactly one link created.
C7_FinalLink ==
  /\ symlinks # <<>> =>
       /\ Len(symlinks) = 1
       /\ writers.symlink = {0}
       /\ symlinks[1] = N
       /\ symlinks[1] \in ckpts
       /\ epoch[0] = N
       /\ \E i \in DOMAIN events[0] : events[0][i] = <<"runepoch", N>>
       /\ pc[0] = "done"
  /\ pc[0] = "done" => Len(symlinks) = 1

C7_Witness ==
  /\ symlinks # <<>>
  /\ N % configs.save_epoch_interval # 0
  /\ configs.num_avg = 0
  /\ world_size > 1

RECURSIVE ExpectedEvents(_, _)
\* what process p is expected to have called once epochs 1..e are over
ExpectedEvents(p, e) ==
  IF e = 0 THEN <<>>
  ELSE ExpectedEvents(p, e - 1)
         \o <<(<<"set_epoch", e>>), (<<"runepoch", e>>)>>
         \o (IF p = 0 /\ Due(e) THEN <<(<<"save_checkpoint", e>>)>> ELSE <<>>)

IsPrefix(s, t) == Len(s) <= Len(t) /\ \A i \in 1..Len(s) : s[i] = t[i]

\* C8: each process runs epochs 1..N in increasing order, each once, with
\* set_epoch(e) before runepoch(e) and, on rank 0, the checkpoint of e (when
\* due) after runepoch(e) and before set_epoch(e+1): the calls a process has
\* made are always a prefix of that sequence, and all of it once it is done.
C8_EpochOrder ==
  \A p \in Ranks :
    /\ IsPrefix(events[p], ExpectedEvents(p, N))
    /\ pc[p] = "done" => events[p] = ExpectedEvents(p, N)

C8_Witness ==
  /\ world_size > 1
  /\ AllDone
  /\ N > configs.num_epochs
  /\ N >= 4
  /\ \E e \in 1..N : ~Due(e)

\* C9: past the barrier of line 151 a process is never blocked: whatever the
\* other processes are doing, its next step can be taken.
C9_NoSyncInLoop ==
  \A p \in Ranks :
    pc[p] \in {"for", "set_epoch", "runepoch", "save", "symlink"} => ENABLED Proc(p)

C9_Witness ==
  /\ world_size > 1
  /\ N >= 2
  /\ pc[1] = "done"
  /\ pc[0] = "for"
  /\ epoch[0] = 0
  /\ ckpts = {}

\* C10: when the model directory does not exist beforehand, every process
\* eventually terminates, having joined the barriers of lines 46, 145, 151
\* in this order.
C10_NormalPathTerminates ==
  (~preExisting) ~> (\A p \in Ranks : pc[p] = "done" /\ barriers[p] = <<46, 145, 151>>)

C10_Witness ==
  /\ ~preExisting
  /\ world_size > 1
  /\ \A p \in Ranks : pc[p] = "done" /\ barriers[p] = <<46, 145, 151>>

====
